---- MODULE Spec2Model ----
(***************************************************************************)
(* Model of the graph store of data/editor/database.py: the nodes, edges   *)
(* and shared_institutions tables, the store operations that write them,   *)
(* and the shared-institution / needs_review computation.                  *)
(***************************************************************************)
EXTENDS Integers, FiniteSets, Sequences, TLC

\* ------------------------------------------------------------------ bounds
\* Largest node id / edge id the AUTOINCREMENT counters may hand out.
MaxNodeId == 4
MaxEdgeId == 4
\* Longest source_ids list given to batch_create_edges.
MaxBatch == 2
\* Number of store operations run on top of a starting database.
MaxOps == 2

\* ------------------------------------------------------------ value domains
NodeTypes == {"person", "institution", "unknown"}
EdgeTypes == {"personal", "affiliation", "unknown"}
DefiniteTypes == {"personal", "affiliation"}

\* SQL NULL in the subtype column.
NULL == "<NULL>"

\* Python's None for an optional argument, and a given value.
None == << >>
Some(v) == <<v>>
IsNone(x) == x = << >>
Val(x) == x[1]

\* ------------------------------------------------------------------ strings
\* A name is a sequence of one-character strings.
IsSpace(c) == c = " "

Lower(c) ==
  CASE c = "A" -> "a"
    [] c = "B" -> "b"
    [] c = "C" -> "c"
    [] OTHER -> c

RECURSIVE lstrip(_)
lstrip(s) ==
  IF s # << >> /\ IsSpace(Head(s)) THEN lstrip(Tail(s)) ELSE s

RECURSIVE rstrip(_)
rstrip(s) ==
  IF s # << >> /\ IsSpace(s[Len(s)]) THEN rstrip(SubSeq(s, 1, Len(s) - 1)) ELSE s

\* str.strip()
strip(s) == rstrip(lstrip(s))

\* re.sub(r"\s+", " ", s): every run of whitespace becomes one space.
RECURSIVE collapse_spaces(_)
collapse_spaces(s) ==
  IF s = << >> THEN << >>
  ELSE IF IsSpace(Head(s))
       THEN <<" ">> \o collapse_spaces(lstrip(s))
       ELSE <<Head(s)>> \o collapse_spaces(Tail(s))

\* str.lower()
lower(s) == [i \in 1..Len(s) |-> Lower(s[i])]

normalize_name(name) == lower(collapse_spaces(strip(name)))

\* ------------------------------------------------------------------- state
VARIABLES
  nodes,                \* nodes table: id -> [name, name_normalized, type, subtype]
  edges,                \* edges table: id -> [source_id, target_id, type, needs_review]
  shared_institutions,  \* shared_institutions table: set of [edge_id, institution_id]
  sqlite_sequence,      \* AUTOINCREMENT counters: [nodes, edges]
  last,                 \* the store operation that ran last, with its outcome
  ops,                  \* number of store operations run so far
  write_lock,           \* the connection that holds SQLite's write lock, or 0
  conn,                 \* per connection: the operation it runs and how far it is
  db_at_start           \* the committed database before any operation ran

vars == <<nodes, edges, shared_institutions, sqlite_sequence, last, ops,
          write_lock, conn, db_at_start>>

\* The record kept in `last`: the operation's name, whether it returned
\* normally, the id and the argument it was given, and its return value.
\* This one is the record of init_db, which only creates the schema.
InitDbRecord == [op |-> "init_db", ok |-> TRUE, id |-> 0, arg |-> 0, ret |-> 0]

\* The database as one value, so that an operation is a function on it.
DB ==
  [nodes |-> nodes, edges |-> edges, shared |-> shared_institutions,
   seq |-> sqlite_sequence]

EmptyFn == [x \in {} |-> 0]

EmptyDB ==
  [nodes |-> EmptyFn, edges |-> EmptyFn, shared |-> {},
   seq |-> [nodes |-> 0, edges |-> 0]]

\* The connections that requests open concurrently (app.run(threaded=True),
\* one get_db() connection per request).
Connections == {1, 2}

\* A connection on which no request has arrived: op is the operation, a and
\* b its two node ids, pc the statement it is at, txn the database as its
\* open transaction sees it, and ok, busy, result the outcome once pc is
\* "done".
NoRequest ==
  [op |-> "none", a |-> 0, b |-> 0, edge_type |-> "", pc |-> "idle",
   side |-> "source", txn |-> EmptyDB, fetched |-> EmptyFn, pending |-> << >>,
   decision |-> "", checked_on |-> EmptyDB, n |-> 0,
   ok |-> TRUE, busy |-> FALSE, result |-> 0]

\* Outcome of an operation body: the database it leaves, whether it returned
\* normally (ok) or raised, and its return value.
Returned(db, ret) == [db |-> db, ok |-> TRUE, ret |-> ret]
Raised(db) == [db |-> db, ok |-> FALSE, ret |-> 0]

\* Mutant: conn.commit() moved to the finally branch, so that what the body
\* wrote before it raised is committed.
get_db_CommitInFinally(old, r) == r

\* get_db(): commit when the body returns, roll back when it raises.
get_db(old, r) == IF r.ok THEN r ELSE [r EXCEPT !.db = old]

\* ------------------------------------------------------- schema constraints
\* FOREIGN KEY ... ON DELETE CASCADE: deleting nodes removes their edges and
\* every shared_institutions row of those edges or naming those nodes.
RemoveKeys(f, ks) == [k \in DOMAIN f \ ks |-> f[k]]

\* Mutant: the connection without PRAGMA foreign_keys = ON, so that deleting
\* an edge leaves its shared_institutions rows behind.
CascadeDeleteEdges_ForeignKeysOff(db, es) ==
  [db EXCEPT !.edges = RemoveKeys(db.edges, es)]

CascadeDeleteEdges(db, es) ==
  [db EXCEPT !.edges = RemoveKeys(db.edges, es),
             !.shared = {r \in db.shared : r.edge_id \notin es}]

\* Mutant: shared_institutions.institution_id without ON DELETE CASCADE, so
\* that rows naming a deleted institution stay.
CascadeDeleteNodes_KeepsInstitutionRows(db, ns) ==
  LET es == {e \in DOMAIN db.edges :
               db.edges[e].source_id \in ns \/ db.edges[e].target_id \in ns}
      d1 == CascadeDeleteEdges(db, es)
  IN [d1 EXCEPT !.nodes = RemoveKeys(db.nodes, ns)]

CascadeDeleteNodes(db, ns) ==
  LET es == {e \in DOMAIN db.edges :
               db.edges[e].source_id \in ns \/ db.edges[e].target_id \in ns}
      d1 == CascadeDeleteEdges(db, es)
  IN [d1 EXCEPT !.nodes = RemoveKeys(db.nodes, ns),
                !.shared = {r \in d1.shared : r.institution_id \notin ns}]

\* Mutant: the connection without PRAGMA foreign_keys = ON, so that the two
\* REFERENCES nodes(id) are not enforced.
EdgeRowRejected_NoReferences(db, e, s, t, ty) ==
  \/ ty \notin EdgeTypes
  \/ \E f \in DOMAIN db.edges \ {e} :
        db.edges[f].source_id = s /\ db.edges[f].target_id = t

\* UNIQUE(source_id, target_id), the two REFERENCES nodes(id) and the CHECK on
\* type: would edge row e with these columns be rejected?
EdgeRowRejected(db, e, s, t, ty) ==
  \/ s \notin DOMAIN db.nodes
  \/ t \notin DOMAIN db.nodes
  \/ ty \notin EdgeTypes
  \/ \E f \in DOMAIN db.edges \ {e} :
        db.edges[f].source_id = s /\ db.edges[f].target_id = t

\* name TEXT UNIQUE and the CHECK on type: would node row n be rejected?
NodeRowRejected(db, n, name, ty) ==
  \/ ty \notin NodeTypes
  \/ \E m \in DOMAIN db.nodes \ {n} : db.nodes[m].name = name

\* ------------------------------------------- shared-institution computation
\* Mutant: only the edges that leave n are followed.
InstitutionsOf_OutgoingOnly(db, n) ==
  {i \in DOMAIN db.nodes :
     /\ db.nodes[i].type = "institution"
     /\ \E e \in DOMAIN db.edges :
          db.edges[e].source_id = n /\ db.edges[e].target_id = i}

\* Institutions joined to node n by one edge, in either direction.
InstitutionsOf(db, n) ==
  {i \in DOMAIN db.nodes :
     /\ db.nodes[i].type = "institution"
     /\ \E e \in DOMAIN db.edges :
          \/ db.edges[e].source_id = n /\ db.edges[e].target_id = i
          \/ db.edges[e].target_id = n /\ db.edges[e].source_id = i}

\* Mutant: "and" for "or", so that only an edge with no person at all skips
\* the computation.
NotPersonToPerson_And(source_type, target_type) ==
  source_type # "person" /\ target_type # "person"

\* The test that ends compute_shared_for_edge early.
NotPersonToPerson(source_type, target_type) ==
  source_type # "person" \/ target_type # "person"

\* Mutant: the DELETE without its WHERE edge_id = ?, the cached rows of all
\* edges cleared.
compute_shared_for_edge_DeletesAllRows(db, edge_id) ==
  LET cleared == [db EXCEPT !.shared = {}]
  IN IF \/ edge_id \notin DOMAIN db.edges
        \/ db.edges[edge_id].source_id \notin DOMAIN db.nodes
        \/ db.edges[edge_id].target_id \notin DOMAIN db.nodes
     THEN cleared
     ELSE
       LET edge == db.edges[edge_id]
           source_type == db.nodes[edge.source_id].type
           target_type == db.nodes[edge.target_id].type
       IN IF NotPersonToPerson(source_type, target_type)
          THEN [cleared EXCEPT !.edges[edge_id].needs_review = FALSE]
          ELSE
            LET shared == InstitutionsOf(cleared, edge.source_id)
                            \cap InstitutionsOf(cleared, edge.target_id)
                needs_review == edge.type = "personal" /\ Cardinality(shared) = 0
            IN [cleared EXCEPT
                  !.shared = @ \cup {[edge_id |-> edge_id, institution_id |-> i] :
                                       i \in shared},
                  !.edges[edge_id].needs_review = needs_review]

\* Mutant: needs_review is decided from the rows cached before the call
\* instead of the set just computed.
compute_shared_for_edge_CountsOldRows(db, edge_id) ==
  LET cleared == [db EXCEPT !.shared = {r \in db.shared : r.edge_id # edge_id}]
  IN IF \/ edge_id \notin DOMAIN db.edges
        \/ db.edges[edge_id].source_id \notin DOMAIN db.nodes
        \/ db.edges[edge_id].target_id \notin DOMAIN db.nodes
     THEN cleared
     ELSE
       LET edge == db.edges[edge_id]
           source_type == db.nodes[edge.source_id].type
           target_type == db.nodes[edge.target_id].type
       IN IF NotPersonToPerson(source_type, target_type)
          THEN [cleared EXCEPT !.edges[edge_id].needs_review = FALSE]
          ELSE
            LET shared == InstitutionsOf(cleared, edge.source_id)
                            \cap InstitutionsOf(cleared, edge.target_id)
                needs_review ==
                  /\ edge.type = "personal"
                  /\ {r \in db.shared : r.edge_id = edge_id} = {}
            IN [cleared EXCEPT
                  !.shared = @ \cup {[edge_id |-> edge_id, institution_id |-> i] :
                                       i \in shared},
                  !.edges[edge_id].needs_review = needs_review]

compute_shared_for_edge(db, edge_id) ==
  LET cleared == [db EXCEPT !.shared = {r \in db.shared : r.edge_id # edge_id}]
  IN IF \/ edge_id \notin DOMAIN db.edges
        \/ db.edges[edge_id].source_id \notin DOMAIN db.nodes
        \/ db.edges[edge_id].target_id \notin DOMAIN db.nodes
     THEN cleared
     ELSE
       LET edge == db.edges[edge_id]
           source_type == db.nodes[edge.source_id].type
           target_type == db.nodes[edge.target_id].type
       IN IF NotPersonToPerson(source_type, target_type)
          THEN [cleared EXCEPT !.edges[edge_id].needs_review = FALSE]
          ELSE
            LET shared == InstitutionsOf(cleared, edge.source_id)
                            \cap InstitutionsOf(cleared, edge.target_id)
                needs_review == edge.type = "personal" /\ Cardinality(shared) = 0
            IN [cleared EXCEPT
                  !.shared = @ \cup {[edge_id |-> edge_id, institution_id |-> i] :
                                       i \in shared},
                  !.edges[edge_id].needs_review = needs_review]

\* for edge in edges: compute_shared_for_edge(conn, edge["id"])
RECURSIVE ComputeEach(_, _)
ComputeEach(db, ids) ==
  IF ids = << >> THEN db
  ELSE ComputeEach(compute_shared_for_edge(db, Head(ids)), Tail(ids))

\* The orders in which a SELECT without ORDER BY may list a set of rows.
RowOrders(S) ==
  {q \in [1..Cardinality(S) -> S] : \A i, j \in DOMAIN q : i # j => q[i] # q[j]}

EdgesOfNode(db, node_id) ==
  {e \in DOMAIN db.edges :
     db.edges[e].source_id = node_id \/ db.edges[e].target_id = node_id}

\* Mutant: WHERE source_id = ? alone, the edges that end at the node skipped.
recalculate_needs_review_for_node_SourceOnly(db, node_id, order) ==
  ComputeEach(db, SelectSeq(order, LAMBDA e : db.edges[e].source_id = node_id))

\* recalculate_needs_review_for_node; `order` is the order in which the SELECT
\* lists the edges of the node.
recalculate_needs_review_for_node(db, node_id, order) == ComputeEach(db, order)

\* Mutant: the loop left after its first row.
recalculate_all_shared_institutions_FirstRowOnly(db, order) ==
  Returned(ComputeEach([db EXCEPT !.shared = {}],
                       SubSeq(order, 1, IF Len(order) > 0 THEN 1 ELSE 0)),
           Len(order))

\* recalculate_all_shared_institutions, the rows fetched in the order `order`.
recalculate_all_shared_institutions(db, order) ==
  Returned(ComputeEach([db EXCEPT !.shared = {}], order), Len(order))

\* ---------------------------------------------------------- node operations
create_node(db, name, node_type, subtype) ==
  LET id == db.seq.nodes + 1
      row == [name |-> strip(name), name_normalized |-> normalize_name(name),
              type |-> node_type, subtype |-> subtype]
  IN IF NodeRowRejected(db, id, row.name, node_type)
     THEN Raised(db)
     ELSE Returned([db EXCEPT !.nodes = (id :> row) @@ @, !.seq.nodes = id], id)

\* The UPDATE nodes statement of update_node: name, node_type and subtype are
\* None or a value; a missing row is updated by nothing.
UpdateNodeRow(row, name, node_type, subtype) ==
  [name |-> IF IsNone(name) THEN row.name ELSE strip(Val(name)),
   name_normalized |-> IF IsNone(name) THEN row.name_normalized
                       ELSE normalize_name(Val(name)),
   type |-> IF IsNone(node_type) THEN row.type ELSE Val(node_type),
   subtype |-> IF IsNone(subtype) THEN row.subtype
               ELSE IF Val(subtype) = "" THEN NULL ELSE Val(subtype)]

update_node(db, node_id, name, node_type, subtype, order) ==
  LET updates == ~IsNone(name) \/ ~IsNone(node_type) \/ ~IsNone(subtype)
      row == UpdateNodeRow(db.nodes[node_id], name, node_type, subtype)
  IN IF updates /\ node_id \in DOMAIN db.nodes
     THEN IF NodeRowRejected(db, node_id, row.name, row.type)
          THEN Raised(db)
          ELSE Returned(recalculate_needs_review_for_node(
                          [db EXCEPT !.nodes[node_id] = row], node_id, order), 0)
     ELSE Returned(recalculate_needs_review_for_node(db, node_id, order), 0)

\* Mutant: the node row is deleted and nothing cascades.
delete_node_NoCascade(db, node_id) ==
  Returned([db EXCEPT !.nodes = RemoveKeys(db.nodes, {node_id})], 0)

delete_node(db, node_id) == Returned(CascadeDeleteNodes(db, {node_id}), 0)

\* Mutant: the self-loop test is dropped, every edge is a candidate for
\* re-homing.
SelfLoopOnPrimary_Never(other_id, primary_id) == FALSE

\* "Skip if this would create a self-loop": the edge's other endpoint is
\* the primary node.
SelfLoopOnPrimary(other_id, primary_id) == other_id = primary_id

\* One pass of the "secondary is the source" loop of merge_nodes over the
\* fetched edge ids; m is [db, n] with n the running edges_transferred.
RECURSIVE TransferAsSource(_, _, _)
TransferAsSource(m, primary_id, ids) ==
  IF ids = << >> THEN m
  ELSE
    LET id == Head(ids)
        target_id == m.fetched[id].target_id
        existing == \E f \in DOMAIN m.db.edges :
                       /\ m.db.edges[f].source_id = primary_id
                       /\ m.db.edges[f].target_id = target_id
        next ==
          IF SelfLoopOnPrimary(target_id, primary_id) \/ existing
          THEN [m EXCEPT !.db = CascadeDeleteEdges(m.db, {id})]
          ELSE [m EXCEPT !.db.edges[id].source_id = primary_id,
                         !.n = @ + 1, !.moved = @ \cup {id}]
    IN TransferAsSource(next, primary_id, Tail(ids))

\* The "secondary is the target" loop.
RECURSIVE TransferAsTarget(_, _, _)
TransferAsTarget(m, primary_id, ids) ==
  IF ids = << >> THEN m
  ELSE
    LET id == Head(ids)
        source_id == m.fetched[id].source_id
        existing == \E f \in DOMAIN m.db.edges :
                       /\ m.db.edges[f].source_id = source_id
                       /\ m.db.edges[f].target_id = primary_id
        next ==
          IF SelfLoopOnPrimary(source_id, primary_id) \/ existing
          THEN [m EXCEPT !.db = CascadeDeleteEdges(m.db, {id})]
          ELSE [m EXCEPT !.db.edges[id].target_id = primary_id,
                         !.n = @ + 1, !.moved = @ \cup {id}]
    IN TransferAsTarget(next, primary_id, Tail(ids))

EdgesFrom(db, n) == {e \in DOMAIN db.edges : db.edges[e].source_id = n}
EdgesTo(db, n) == {e \in DOMAIN db.edges : db.edges[e].target_id = n}

\* The state of merge_nodes after its first loop, the as-source rows fetched
\* in the order order_src.
MergeAfterSource(db, primary_id, secondary_id, order_src) ==
  TransferAsSource([db |-> db, n |-> 0, moved |-> {}, fetched |-> db.edges],
                   primary_id, order_src)

\* Mutant: the primary_id == secondary_id test is missing.
merge_nodes_NoSelfCheck(db, primary_id, secondary_id, order_src, order_tgt) ==
  IF primary_id \notin DOMAIN db.nodes \/ secondary_id \notin DOMAIN db.nodes
  THEN Raised(db)
  ELSE
    LET m1 == MergeAfterSource(db, primary_id, secondary_id, order_src)
        m2 == TransferAsTarget([m1 EXCEPT !.fetched = m1.db.edges],
                               primary_id, order_tgt)
    IN Returned(CascadeDeleteNodes(m2.db, {secondary_id}),
                [primary_name |-> db.nodes[primary_id].name,
                 secondary_name |-> db.nodes[secondary_id].name,
                 edges_transferred |-> m2.n,
                 moved |-> m2.moved])

\* merge_nodes; ret.moved (the ids of the transferred edges) is not part of
\* the value the code returns, it is kept to state properties of the merge.
merge_nodes(db, primary_id, secondary_id, order_src, order_tgt) ==
  IF primary_id \notin DOMAIN db.nodes \/ secondary_id \notin DOMAIN db.nodes
  THEN Raised(db)
  ELSE IF primary_id = secondary_id
  THEN Raised(db)
  ELSE
    LET m1 == MergeAfterSource(db, primary_id, secondary_id, order_src)
        m2 == TransferAsTarget([m1 EXCEPT !.fetched = m1.db.edges],
                               primary_id, order_tgt)
    IN Returned(CascadeDeleteNodes(m2.db, {secondary_id}),
                [primary_name |-> db.nodes[primary_id].name,
                 secondary_name |-> db.nodes[secondary_id].name,
                 edges_transferred |-> m2.n,
                 moved |-> m2.moved])

\* ---------------------------------------------------------- edge operations
create_edge(db, source_id, target_id, edge_type) ==
  LET edge_id == db.seq.edges + 1
      row == [source_id |-> source_id, target_id |-> target_id,
              type |-> edge_type, needs_review |-> FALSE]
  IN IF EdgeRowRejected(db, edge_id, source_id, target_id, edge_type)
     THEN Raised(db)
     ELSE Returned(compute_shared_for_edge(
                     [db EXCEPT !.edges = (edge_id :> row) @@ @,
                                !.seq.edges = edge_id], edge_id), edge_id)

\* The UPDATE edges statement that update_edge builds; each argument is None
\* or a value.
UpdateEdgeRow(row, source_id, target_id, edge_type, needs_review) ==
  [source_id |-> IF IsNone(source_id) THEN row.source_id ELSE Val(source_id),
   target_id |-> IF IsNone(target_id) THEN row.target_id ELSE Val(target_id),
   type |-> IF IsNone(edge_type) THEN row.type ELSE Val(edge_type),
   needs_review |->
     IF ~IsNone(edge_type) /\ Val(edge_type) \in DefiniteTypes THEN FALSE
     ELSE IF ~IsNone(needs_review) THEN Val(needs_review)
     ELSE row.needs_review]

\* Mutant: compute_shared_for_edge run before the UPDATE instead of after it.
update_edge_RecomputeFirst(db, edge_id, source_id, target_id, edge_type, needs_review) ==
  LET recompute_shared == ~IsNone(source_id) \/ ~IsNone(target_id)
      updates == recompute_shared \/ ~IsNone(edge_type) \/ ~IsNone(needs_review)
      before == IF recompute_shared THEN compute_shared_for_edge(db, edge_id) ELSE db
      row == UpdateEdgeRow(before.edges[edge_id], source_id, target_id,
                           edge_type, needs_review)
  IN IF updates /\ edge_id \in DOMAIN db.edges
     THEN IF EdgeRowRejected(db, edge_id, row.source_id, row.target_id, row.type)
          THEN Raised(db)
          ELSE Returned([before EXCEPT !.edges[edge_id] = row], 0)
     ELSE Returned(before, 0)

update_edge(db, edge_id, source_id, target_id, edge_type, needs_review) ==
  LET recompute_shared == ~IsNone(source_id) \/ ~IsNone(target_id)
      updates == recompute_shared \/ ~IsNone(edge_type) \/ ~IsNone(needs_review)
      row == UpdateEdgeRow(db.edges[edge_id], source_id, target_id,
                           edge_type, needs_review)
      updated == IF updates /\ edge_id \in DOMAIN db.edges
                 THEN [db EXCEPT !.edges[edge_id] = row]
                 ELSE db
  IN IF /\ updates
        /\ edge_id \in DOMAIN db.edges
        /\ EdgeRowRejected(db, edge_id, row.source_id, row.target_id, row.type)
     THEN Raised(db)
     ELSE IF recompute_shared
          THEN Returned(compute_shared_for_edge(updated, edge_id), 0)
          ELSE Returned(updated, 0)

delete_edge(db, edge_id) == Returned(CascadeDeleteEdges(db, {edge_id}), 0)

\* --------------------------------------------------------- batch operations
batch_update_node_subtype(db, node_ids, subtype) ==
  Returned([db EXCEPT !.nodes =
              [n \in DOMAIN db.nodes |->
                 IF n \in node_ids /\ db.nodes[n].type = "institution"
                 THEN [db.nodes[n] EXCEPT
                         !.subtype = IF subtype = "" THEN NULL ELSE subtype]
                 ELSE db.nodes[n]]],
           Cardinality(node_ids))

\* Mutant: needs_review = 0 is part of the UPDATE for every type.
batch_update_edge_type_AlwaysClears(db, edge_ids, edge_type) ==
  IF edge_type \notin EdgeTypes /\ edge_ids \cap DOMAIN db.edges # {}
  THEN Raised(db)
  ELSE Returned([db EXCEPT !.edges =
                   [e \in DOMAIN db.edges |->
                      IF e \notin edge_ids THEN db.edges[e]
                      ELSE [db.edges[e] EXCEPT !.type = edge_type,
                                               !.needs_review = FALSE]]],
                Cardinality(edge_ids))

batch_update_edge_type(db, edge_ids, edge_type) ==
  IF edge_type \notin EdgeTypes /\ edge_ids \cap DOMAIN db.edges # {}
  THEN Raised(db)
  ELSE Returned([db EXCEPT !.edges =
                   [e \in DOMAIN db.edges |->
                      IF e \notin edge_ids THEN db.edges[e]
                      ELSE IF edge_type \in DefiniteTypes
                      THEN [db.edges[e] EXCEPT !.type = edge_type,
                                               !.needs_review = FALSE]
                      ELSE [db.edges[e] EXCEPT !.type = edge_type]]],
                Cardinality(edge_ids))

batch_mark_reviewed(db, edge_ids, reviewed) ==
  Returned([db EXCEPT !.edges =
              [e \in DOMAIN db.edges |->
                 IF e \in edge_ids
                 THEN [db.edges[e] EXCEPT !.needs_review = ~reviewed]
                 ELSE db.edges[e]]],
           Cardinality(edge_ids))

\* The insert loop of batch_create_edges; b is [db, created]. A rejected row
\* raises sqlite3.IntegrityError, which the loop swallows.
RECURSIVE InsertEach(_, _, _, _)
InsertEach(b, source_ids, target_id, edge_type) ==
  IF source_ids = << >> THEN b
  ELSE
    LET source_id == Head(source_ids)
        edge_id == b.db.seq.edges + 1
        row == [source_id |-> source_id, target_id |-> target_id,
                type |-> edge_type, needs_review |-> FALSE]
        next ==
          IF EdgeRowRejected(b.db, edge_id, source_id, target_id, edge_type)
          THEN b
          ELSE [db |-> [b.db EXCEPT !.edges = (edge_id :> row) @@ @,
                                    !.seq.edges = edge_id],
                created |-> Append(b.created, edge_id)]
    IN InsertEach(next, Tail(source_ids), target_id, edge_type)

batch_create_edges(db, source_ids, target_id, edge_type) ==
  LET b == InsertEach([db |-> db, created |-> << >>],
                      source_ids, target_id, edge_type)
  IN Returned(ComputeEach(b.db, b.created), b.created)

batch_delete_edges(db, edge_ids) ==
  Returned(CascadeDeleteEdges(db, edge_ids), Cardinality(edge_ids))

\* ------------------------------------------------------------------- inputs
NodeIds == 1..MaxNodeId
EdgeIds == 1..MaxEdgeId

\* Names as callers enter them; <<"A", " ">> differs from <<"A">> only by a
\* trailing space, <<"a">> from <<"A">> only by case.
NameInputs == {<<"a">>, <<"A">>, <<"A", " ">>, <<"e">>}
\* A value outside the CHECK constraints of the type columns.
InvalidType == "other"
NodeTypeInputs == NodeTypes \cup {InvalidType}
EdgeTypeInputs == EdgeTypes \cup {InvalidType}
SubtypeInputs == {"", "press"}

Optional(S) == {None} \cup {Some(v) : v \in S}

SourceLists == UNION {[1..k -> NodeIds] : k \in 0..MaxBatch}

\* ------------------------------------------------------ starting databases
\* network.db persists between runs: the editor starts on the empty schema of
\* init_db or on a database built earlier through the store operations. Each
\* starting database below is written as the calls that build it.
AddNode(db, name, node_type) == create_node(db, name, node_type, NULL).db
AddEdge(db, source_id, target_id, edge_type) ==
  create_edge(db, source_id, target_id, edge_type).db

\* Persons 1 and 2, institution 3.
TwoPersonsOneInstitution ==
  AddNode(AddNode(AddNode(EmptyDB, <<"a">>, "person"), <<"b">>, "person"),
          <<"c">>, "institution")

\* Both persons affiliated to the institution, then a personal edge 1 -> 2.
SharedAffiliation ==
  AddEdge(AddEdge(AddEdge(TwoPersonsOneInstitution, 1, 3, "affiliation"),
                  2, 3, "affiliation"),
          1, 2, "personal")

\* The personal edge 1 -> 2 entered first, one affiliation after it.
PersonalFirst ==
  AddEdge(AddEdge(TwoPersonsOneInstitution, 1, 2, "personal"),
          3, 1, "unknown")

\* Persons 1, 2, 3 and institution 4; 2 -> 3 personal, 1 and 3 affiliated to 4.
ThreePersons ==
  AddEdge(AddEdge(AddEdge(
    AddNode(AddNode(AddNode(AddNode(EmptyDB, <<"a">>, "person"),
                            <<"b">>, "person"), <<"c">>, "person"),
            <<"d">>, "institution"),
    2, 3, "personal"), 1, 4, "affiliation"), 4, 3, "affiliation")

StartingDatabases ==
  {EmptyDB, TwoPersonsOneInstitution, SharedAffiliation, PersonalFirst, ThreePersons}

\* ------------------------------------------------------------------ actions
\* Run an operation body inside get_db() and record it in last: the name of
\* the operation, the id it was given (arg is the second id of merge_nodes,
\* the name given to create_node, and the remaining arguments of update_edge,
\* create_edge and the batch operations on edges), and its outcome.
Run(r, op, id, arg) ==
  LET c == get_db(DB, r)
  IN /\ nodes' = c.db.nodes
     /\ edges' = c.db.edges
     /\ shared_institutions' = c.db.shared
     /\ sqlite_sequence' = c.db.seq
     /\ last' = [op |-> op, ok |-> c.ok, id |-> id, arg |-> arg, ret |-> c.ret]
     /\ ops' = ops + 1
     /\ UNCHANGED <<write_lock, conn, db_at_start>>

Init ==
  \E db \in StartingDatabases :
    /\ nodes = db.nodes
    /\ edges = db.edges
    /\ shared_institutions = db.shared
    /\ sqlite_sequence = db.seq
    /\ last = InitDbRecord
    /\ ops = 0
    /\ write_lock = 0
    /\ conn = [c \in Connections |-> NoRequest]
    /\ db_at_start = db

CreateNode ==
  /\ ops < MaxOps
  /\ \E name \in NameInputs, node_type \in NodeTypeInputs :
    /\ sqlite_sequence.nodes < MaxNodeId
    /\ Run(create_node(DB, name, node_type, NULL), "create_node", 0, name)

UpdateNode ==
  /\ ops < MaxOps
  /\ \E node_id \in NodeIds, name \in Optional(NameInputs),
     node_type \in Optional(NodeTypeInputs), subtype \in Optional(SubtypeInputs) :
    \E order \in RowOrders(EdgesOfNode(DB, node_id)) :
      Run(update_node(DB, node_id, name, node_type, subtype, order),
          "update_node", node_id, 0)

DeleteNode ==
  /\ ops < MaxOps
  /\ \E node_id \in NodeIds :
    Run(delete_node(DB, node_id), "delete_node", node_id, 0)

MergeNodes ==
  /\ ops < MaxOps
  /\ \E primary_id \in NodeIds, secondary_id \in NodeIds :
    \E order_src \in RowOrders(EdgesFrom(DB, secondary_id)) :
      \E order_tgt \in RowOrders(EdgesTo(
            MergeAfterSource(DB, primary_id, secondary_id, order_src).db,
            secondary_id)) :
        Run(merge_nodes(DB, primary_id, secondary_id, order_src, order_tgt),
            "merge_nodes", primary_id, secondary_id)

CreateEdge ==
  /\ ops < MaxOps
  /\ \E source_id \in NodeIds, target_id \in NodeIds, edge_type \in EdgeTypeInputs :
    /\ sqlite_sequence.edges < MaxEdgeId
    /\ Run(create_edge(DB, source_id, target_id, edge_type), "create_edge", 0,
           [source_id |-> source_id, target_id |-> target_id,
            edge_type |-> edge_type])

UpdateEdge ==
  /\ ops < MaxOps
  /\ \E edge_id \in EdgeIds, source_id \in Optional(NodeIds),
     target_id \in Optional(NodeIds), edge_type \in Optional(EdgeTypeInputs),
     needs_review \in Optional(BOOLEAN) :
    Run(update_edge(DB, edge_id, source_id, target_id, edge_type, needs_review),
        "update_edge", edge_id,
        [edge_type |-> edge_type,
         moved |-> ~IsNone(source_id) \/ ~IsNone(target_id)])

DeleteEdge ==
  /\ ops < MaxOps
  /\ \E edge_id \in EdgeIds :
    Run(delete_edge(DB, edge_id), "delete_edge", edge_id, 0)

BatchUpdateNodeSubtype ==
  /\ ops < MaxOps
  /\ \E node_ids \in SUBSET NodeIds, subtype \in SubtypeInputs :
    Run(batch_update_node_subtype(DB, node_ids, subtype),
        "batch_update_node_subtype", 0, 0)

BatchUpdateEdgeType ==
  /\ ops < MaxOps
  /\ \E edge_ids \in SUBSET EdgeIds, edge_type \in EdgeTypeInputs :
    Run(batch_update_edge_type(DB, edge_ids, edge_type),
        "batch_update_edge_type", 0,
        [edge_ids |-> edge_ids, edge_type |-> edge_type])

BatchMarkReviewed ==
  /\ ops < MaxOps
  /\ \E edge_ids \in SUBSET EdgeIds, reviewed \in BOOLEAN :
    Run(batch_mark_reviewed(DB, edge_ids, reviewed), "batch_mark_reviewed", 0, 0)

BatchCreateEdges ==
  /\ ops < MaxOps
  /\ \E source_ids \in SourceLists, target_id \in NodeIds, edge_type \in EdgeTypeInputs :
    /\ sqlite_sequence.edges + Len(source_ids) <= MaxEdgeId
    /\ Run(batch_create_edges(DB, source_ids, target_id, edge_type),
           "batch_create_edges", 0,
           [source_ids |-> source_ids, target_id |-> target_id,
            edge_type |-> edge_type])

BatchDeleteEdges ==
  /\ ops < MaxOps
  /\ \E edge_ids \in SUBSET EdgeIds :
    Run(batch_delete_edges(DB, edge_ids), "batch_delete_edges", 0, 0)

\* compute_shared_for_edge called on an open connection, then committed.
Recompute ==
  /\ ops < MaxOps
  /\ \E edge_id \in EdgeIds :
    Run(Returned(compute_shared_for_edge(DB, edge_id), 0), "recompute", edge_id, 0)

RecalculateAll ==
  /\ ops < MaxOps
  /\ \E order \in RowOrders(DOMAIN edges) :
    Run(recalculate_all_shared_institutions(DB, order), "recalculate_all", 0, 0)

\* conn.execute raises sqlite3.Error (disk I/O error, database or disk is
\* full) at a statement that follows the operation's first writes; get_db()
\* takes its except branch. The database given to Raised is what the
\* transaction had written when the statement failed:
\*   update_node         the UPDATE done, the recalculation not started;
\*   merge_nodes         the first loop done, the second SELECT failing;
\*   batch_create_edges  a row or more inserted, the first recomputation
\*                       failing;
\*   recalculate_all     the DELETE and the first k recomputations done.
StorageFailure ==
  /\ ops < MaxOps
  /\ \/ \E node_id \in DOMAIN nodes, node_type \in NodeTypes :
          Run(Raised([DB EXCEPT !.nodes[node_id] =
                        UpdateNodeRow(nodes[node_id], None, Some(node_type), None)]),
              "update_node", node_id, 0)
     \/ \E primary_id \in DOMAIN nodes, secondary_id \in DOMAIN nodes :
          /\ primary_id # secondary_id
          /\ \E order_src \in RowOrders(EdgesFrom(DB, secondary_id)) :
               Run(Raised(MergeAfterSource(DB, primary_id, secondary_id,
                                           order_src).db),
                   "merge_nodes", primary_id, secondary_id)
     \/ \E source_ids \in SourceLists, target_id \in NodeIds,
           edge_type \in EdgeTypes :
          /\ sqlite_sequence.edges + Len(source_ids) <= MaxEdgeId
          /\ InsertEach([db |-> DB, created |-> << >>],
                        source_ids, target_id, edge_type).created # << >>
          /\ Run(Raised(InsertEach([db |-> DB, created |-> << >>],
                                   source_ids, target_id, edge_type).db),
                 "batch_create_edges", 0,
                 [source_ids |-> source_ids, target_id |-> target_id,
                  edge_type |-> edge_type])
     \/ \E order \in RowOrders(DOMAIN edges) :
          \E k \in 0..Len(order) :
            Run(Raised(ComputeEach([DB EXCEPT !.shared = {}],
                                   SubSeq(order, 1, k))),
                "recalculate_all", 0, 0)

Next ==
  \/ CreateNode
  \/ UpdateNode
  \/ DeleteNode
  \/ MergeNodes
  \/ CreateEdge
  \/ UpdateEdge
  \/ DeleteEdge
  \/ BatchUpdateNodeSubtype
  \/ BatchUpdateEdgeType
  \/ BatchMarkReviewed
  \/ BatchCreateEdges
  \/ BatchDeleteEdges
  \/ Recompute
  \/ RecalculateAll
  \/ StorageFailure

Spec == Init /\ [][Next]_vars

\* ------------------------------------------------- what the cache should be
\* Stated on the tables alone, without the operators of the computation.
AdjacentIn(db, a, b) ==
  \E e \in DOMAIN db.edges :
    \/ db.edges[e].source_id = a /\ db.edges[e].target_id = b
    \/ db.edges[e].source_id = b /\ db.edges[e].target_id = a

PersonToPersonIn(db, e) ==
  /\ db.nodes[db.edges[e].source_id].type = "person"
  /\ db.nodes[db.edges[e].target_id].type = "person"

\* Institution nodes adjacent to both endpoints of edge e.
CommonInstitutionsIn(db, e) ==
  {i \in DOMAIN db.nodes :
     /\ db.nodes[i].type = "institution"
     /\ AdjacentIn(db, db.edges[e].source_id, i)
     /\ AdjacentIn(db, db.edges[e].target_id, i)}

CachedRowsIn(db, e) ==
  {r.institution_id : r \in {x \in db.shared : x.edge_id = e}}

FlagMatchesIn(db, e) ==
  db.edges[e].needs_review <=>
    (db.edges[e].type = "personal" /\ CommonInstitutionsIn(db, e) = {})

\* Rows and flag of edge e are what a recompute of e would leave.
UpToDateIn(db, e) ==
  IF PersonToPersonIn(db, e)
  THEN CachedRowsIn(db, e) = CommonInstitutionsIn(db, e) /\ FlagMatchesIn(db, e)
  ELSE CachedRowsIn(db, e) = {} /\ ~db.edges[e].needs_review

PersonToPerson(e) == PersonToPersonIn(DB, e)
CommonInstitutions(e) == CommonInstitutionsIn(DB, e)
CachedRows(e) == CachedRowsIn(DB, e)
UpToDate(e) == UpToDateIn(DB, e)

\* The edges on which the last operation ran compute_shared_for_edge.
RecomputedByLast ==
  IF ~last.ok THEN {}
  ELSE CASE last.op = "create_edge" -> {last.ret}
         [] last.op = "batch_create_edges" -> {last.ret[i] : i \in DOMAIN last.ret}
         [] last.op = "update_edge" /\ last.arg.moved -> {last.id}
         [] last.op = "update_node" -> EdgesOfNode(DB, last.id)
         [] last.op = "recompute" -> {last.id}
         [] last.op = "recalculate_all" -> DOMAIN edges
         [] OTHER -> {}

\* --------------------------------------------------------------- properties

\* C1: after recompute(e) of an existing edge e, a person-to-person edge has
\* as cached rows exactly the institutions adjacent to both endpoints and is
\* flagged iff it is personal with none; any other edge has no rows and no
\* flag. Checked in the state recompute leaves and for a recompute of every
\* edge of every reachable state.
C1_RecomputePostcondition ==
  /\ (last.op = "recompute" /\ last.id \in DOMAIN edges) => UpToDate(last.id)
  /\ \A e \in DOMAIN edges : UpToDateIn(compute_shared_for_edge(DB, e), e)

\* The scenario's end: persons 1 and 2, institution 3, an edge 1-3, no edge
\* 2-3, and the personal edge 1-2 recomputed to no rows and flagged.
C1_Witness ==
  /\ last.op = "recompute"
  /\ last.id \in DOMAIN edges
  /\ PersonToPerson(last.id)
  /\ edges[last.id].type = "personal"
  /\ {edges[last.id].source_id, edges[last.id].target_id} = {1, 2}
  /\ 3 \in DOMAIN nodes
  /\ nodes[3].type = "institution"
  /\ AdjacentIn(DB, 1, 3)
  /\ ~AdjacentIn(DB, 2, 3)
  /\ CachedRows(last.id) = {}
  /\ edges[last.id].needs_review

\* C2 as claimed: in every reachable state every person-to-person edge is
\* flagged iff it is personal and no institution is adjacent to both ends.
C2_FlagInvariant ==
  \A e \in DOMAIN edges : PersonToPerson(e) => FlagMatchesIn(DB, e)

\* C2 amended: the flag of a person-to-person edge is personal-and-nothing-
\* shared in the state left by an operation that recomputed that edge.
C2_FlagAfterRecompute ==
  \A e \in RecomputedByLast \cap DOMAIN edges :
    PersonToPerson(e) => FlagMatchesIn(DB, e)

\* update_node has just recomputed a personal person-to-person edge and
\* raised its flag.
C2_Witness ==
  /\ last.op = "update_node"
  /\ last.ok
  /\ \E e \in RecomputedByLast \cap DOMAIN edges :
       /\ PersonToPerson(e)
       /\ edges[e].type = "personal"
       /\ CommonInstitutions(e) = {}
       /\ edges[e].needs_review

C4_CacheConsistent ==
  \A e \in DOMAIN edges :
    PersonToPerson(e) => CachedRows(e) = CommonInstitutions(e)

\* C5 as claimed: an operation that changed an edge's endpoint leaves that
\* edge's rows and flag matching the new endpoints.
C5_EndpointChangeRecomputes ==
  /\ (last.op = "update_edge" /\ last.ok /\ last.arg.moved
        /\ last.id \in DOMAIN edges) => UpToDate(last.id)
  /\ (last.op = "merge_nodes" /\ last.ok) =>
       \A e \in last.ret.moved \cap DOMAIN edges : UpToDate(e)

\* C6: a second recompute(e) changes nothing the first left (for every edge
\* id of every reachable state), and in the state recompute_all leaves a
\* second recompute_all changes nothing, in whatever order it lists the rows.
C6_RecomputeIdempotent ==
  /\ \A e \in EdgeIds :
       LET once == compute_shared_for_edge(DB, e)
       IN compute_shared_for_edge(once, e) = once
  /\ (last.op = "recalculate_all" /\ last.ok) =>
       \A order \in RowOrders(DOMAIN edges) :
         recalculate_all_shared_institutions(DB, order) = Returned(DB, last.ret)

\* A recompute has just changed a stale edge: a further one must not.
C6_Witness ==
  /\ last.op = "recompute"
  /\ last.id \in DOMAIN edges
  /\ PersonToPerson(last.id)
  /\ CachedRows(last.id) # {}
  /\ ops = MaxOps

\* C7: recompute of an id that names no edge returns normally and leaves
\* every table as it was.
C7_RecomputeMissingEdge ==
  \A e \in EdgeIds \ DOMAIN edges : compute_shared_for_edge(DB, e) = DB

\* recompute has run on the id of an edge that an earlier operation deleted.
C7_Witness ==
  /\ last.op = "recompute"
  /\ last.ok
  /\ last.id \notin DOMAIN edges
  /\ last.id <= sqlite_sequence.edges

\* C8: in the state update_node(n, ...) leaves, every edge touching n has the
\* rows and the flag a recompute gives it.
C8_UpdateNodeRecomputes ==
  (last.op = "update_node" /\ last.ok) =>
    \A e \in DOMAIN edges :
      (edges[e].source_id = last.id \/ edges[e].target_id = last.id)
        => UpToDate(e)

\* update_node has turned an endpoint of a flagged personal edge into an
\* institution, which cleared the flag.
C8_Witness ==
  /\ last.op = "update_node"
  /\ last.ok
  /\ last.id \in DOMAIN nodes
  /\ nodes[last.id].type = "institution"
  /\ \E e \in DOMAIN edges :
       /\ edges[e].source_id = last.id
       /\ edges[e].type = "personal"
       /\ nodes[edges[e].target_id].type = "person"
       /\ ~edges[e].needs_review

\* C9: in the state recompute_all leaves, every edge is up to date, no other
\* cached row exists, and the value returned is the number of edges.
AllUpToDateIn(db) ==
  /\ \A e \in DOMAIN db.edges : UpToDateIn(db, e)
  /\ \A r \in db.shared : r.edge_id \in DOMAIN db.edges

C9_RecalculateAllRepairs ==
  (last.op = "recalculate_all" /\ last.ok) =>
    AllUpToDateIn(DB) /\ last.ret = Cardinality(DOMAIN edges)

\* recompute_all has run on two or more edges, one of them with shared rows.
C9_Witness ==
  /\ last.op = "recalculate_all"
  /\ last.ret >= 2
  /\ \E e \in DOMAIN edges : PersonToPerson(e) /\ CachedRows(e) # {}
  /\ \E e \in DOMAIN edges : edges[e].needs_review

\* C10 as claimed: update_edge with edge_type personal or affiliation leaves
\* the edge unflagged, whatever else the call sets.
C10_DefiniteTypeClearsFlag ==
  (/\ last.op = "update_edge"
   /\ last.ok
   /\ last.id \in DOMAIN edges
   /\ ~IsNone(last.arg.edge_type)
   /\ Val(last.arg.edge_type) \in DefiniteTypes)
    => ~edges[last.id].needs_review

\* ------------------------------------------------------ edges and merging
\* The two endpoints of an edge row, as an unordered pair.
EndsOf(row) == {row.source_id, row.target_id}

\* At most one edge per unordered pair of nodes in the edges table es.
AtMostOnePerPair(es) ==
  \A e \in DOMAIN es, f \in DOMAIN es : e # f => EndsOf(es[e]) # EndsOf(es[f])

NoSelfLoop(es) == \A e \in DOMAIN es : es[e].source_id # es[e].target_id

\* C11 as claimed: in every reachable state no two edges join the same two
\* nodes in either direction and no edge has its source as its target.
C11_EdgeInvariant == AtMostOnePerPair(edges) /\ NoSelfLoop(edges)

\* C12 as claimed: a merge that starts with at most one edge per unordered
\* pair of nodes ends with at most one edge per unordered pair.
C12_MergeKeepsPairsUnique ==
  [][(last'.op = "merge_nodes" /\ last'.ok /\ AtMostOnePerPair(edges))
       => AtMostOnePerPair(edges')]_vars

\* C13: a merge that starts with no self-loop ends with no self-loop, and
\* every edge between secondary and primary is deleted, not re-homed.
C13_MergeMakesNoSelfLoop ==
  [][(last'.op = "merge_nodes" /\ last'.ok /\ NoSelfLoop(edges))
       => /\ NoSelfLoop(edges')
          /\ \A e \in DOMAIN edges :
               EndsOf(edges[e]) = {last'.id, last'.arg}
                 => e \notin DOMAIN edges']_vars

\* A merge has deleted an edge that joined primary and secondary and has
\* re-homed another edge of the secondary.
C13_Witness ==
  /\ last.op = "merge_nodes"
  /\ last.ok
  /\ last.ret.edges_transferred >= 1
  /\ NoSelfLoop(edges)
  /\ Cardinality(DOMAIN edges) < sqlite_sequence.edges
  /\ \E e \in last.ret.moved :
       e \in DOMAIN edges /\ last.id \in EndsOf(edges[e])

\* The edges of table es that merge(primary, secondary) should transfer:
\* incident to secondary, the other endpoint neither primary nor secondary
\* and not joined to primary by an edge in either direction.
ShouldTransfer(es, primary_id, secondary_id) ==
  {e \in DOMAIN es :
     /\ secondary_id \in EndsOf(es[e])
     /\ \E other \in EndsOf(es[e]) \ {primary_id, secondary_id} :
          ~\E f \in DOMAIN es : EndsOf(es[f]) = {other, primary_id}}

\* C14 as claimed: edges_transferred is the number of edges of secondary
\* whose other endpoint is not primary and had no edge to primary in
\* either direction before the merge.
C14_EdgesTransferredCount ==
  [][(last'.op = "merge_nodes" /\ last'.ok)
       => last'.ret.edges_transferred =
            Cardinality(ShouldTransfer(edges, last'.id, last'.arg))]_vars

\* C15: merge with a primary or secondary id that is no node, or with
\* primary equal to secondary, raises and leaves nodes, edges and cached
\* rows as they were.
C15_MergeValidation ==
  [][(/\ last'.op = "merge_nodes"
      /\ \/ last'.id \notin DOMAIN nodes
         \/ last'.arg \notin DOMAIN nodes
         \/ last'.id = last'.arg)
       => /\ ~last'.ok
          /\ nodes' = nodes
          /\ edges' = edges
          /\ shared_institutions' = shared_institutions]_vars

\* A node that has edges was merged with itself, and the call raised.
C15_Witness ==
  /\ last.op = "merge_nodes"
  /\ ~last.ok
  /\ last.id = last.arg
  /\ last.id \in DOMAIN nodes
  /\ EdgesOfNode(DB, last.id) # {}

\* C16: after a successful merge the secondary node is gone, no edge
\* touches it, every cached row names a remaining edge and a remaining
\* institution other than it, and the primary node's row is unchanged.
C16_MergeRemovesSecondary ==
  [][(last'.op = "merge_nodes" /\ last'.ok)
       => /\ last'.arg \notin DOMAIN nodes'
          /\ \A e \in DOMAIN edges' : last'.arg \notin EndsOf(edges'[e])
          /\ \A r \in shared_institutions' :
               /\ r.institution_id # last'.arg
               /\ r.edge_id \in DOMAIN edges'
          /\ last'.id \in DOMAIN nodes'
          /\ nodes'[last'.id] = nodes[last'.id]]_vars

\* An institution that was cached as shared by an edge has been merged
\* away: institution 3 of the database with both persons affiliated to it.
C16_Witness ==
  /\ last.op = "merge_nodes"
  /\ last.ok
  /\ last.arg = 3
  /\ ops = 1
  /\ sqlite_sequence = [nodes |-> 3, edges |-> 3]
  /\ 3 \in DOMAIN edges
  /\ EndsOf(edges[3]) = {1, 2}
  /\ shared_institutions = {}

\* C18: after delete_node(n) the node is gone, no edge touches n, every
\* cached row names a remaining edge and an institution other than n, and
\* the other nodes and the edges that did not touch n are unchanged.
C18_DeleteNodeCascades ==
  [][(last'.op = "delete_node" /\ last'.ok)
       => /\ last'.id \notin DOMAIN nodes'
          /\ \A e \in DOMAIN edges' : last'.id \notin EndsOf(edges'[e])
          /\ \A r \in shared_institutions' :
               /\ r.institution_id # last'.id
               /\ r.edge_id \in DOMAIN edges'
          /\ \A m \in DOMAIN nodes \ {last'.id} :
               m \in DOMAIN nodes' /\ nodes'[m] = nodes[m]
          /\ \A e \in DOMAIN edges :
               last'.id \notin EndsOf(edges[e])
                 => e \in DOMAIN edges' /\ edges'[e] = edges[e]]_vars

\* Institution 3, shared by the edge 1 -> 2, has been deleted with its two
\* affiliation edges and the cached row that named it.
C18_Witness ==
  /\ last.op = "delete_node"
  /\ last.ok
  /\ last.id = 3
  /\ ops = 1
  /\ sqlite_sequence = [nodes |-> 3, edges |-> 3]
  /\ DOMAIN edges = {3}
  /\ shared_institutions = {}

\* ---------------------------------------------------------- audit report
\* Number of operations run in the audit specification.
MaxAuditOps == 4

\* The characters that occur in names, in code point order (SQLite's BINARY
\* collation and Python's str comparison both follow it).
Alphabet == <<" ", "A", "B", "C", "a", "b", "c", "d", "e", "f", "g", "h", "x">>

CodePoint(c) == CHOOSE i \in DOMAIN Alphabet : Alphabet[i] = c

\* s <= t in ORDER BY name_normalized.
RECURSIVE StrLessEq(_, _)
StrLessEq(s, t) ==
  IF s = << >> THEN TRUE
  ELSE IF t = << >> THEN FALSE
  ELSE IF Head(s) = Head(t) THEN StrLessEq(Tail(s), Tail(t))
  ELSE CodePoint(Head(s)) < CodePoint(Head(t))

Min2(a, b) == IF a <= b THEN a ELSE b
Max2(a, b) == IF a >= b THEN a ELSE b

\* Mutant: the substitution cost is 1 also where the characters are equal.
RECURSIVE FillRow_NoMatch(_, _, _, _, _)
FillRow_NoMatch(s1, s2, i, prev, curr) ==
  IF Len(curr) = Len(s2) + 1 THEN curr
  ELSE
    LET j == Len(curr)
        v == Min2(Min2(curr[j] + 1, prev[j + 1] + 1), prev[j] + 1)
    IN FillRow_NoMatch(s1, s2, i, prev, Append(curr, v))

\* One row of the two-row table of _similarity: curr holds columns
\* 0 .. Len(curr) - 1 of row i, prev the whole row i - 1.
RECURSIVE FillRow(_, _, _, _, _)
FillRow(s1, s2, i, prev, curr) ==
  IF Len(curr) = Len(s2) + 1 THEN curr
  ELSE
    LET j == Len(curr)
        cost == IF s1[i] = s2[j] THEN 0 ELSE 1
        v == Min2(Min2(curr[j] + 1, prev[j + 1] + 1), prev[j] + cost)
    IN FillRow(s1, s2, i, prev, Append(curr, v))

RECURSIVE LastRow(_, _, _, _)
LastRow(s1, s2, i, prev) ==
  IF i > Len(s1) THEN prev
  ELSE LastRow(s1, s2, i + 1, FillRow(s1, s2, i, prev, <<i>>))

\* _similarity as the exact fraction num / den of 1.0 - distance / max(len).
similarity(s1, s2) ==
  IF s1 = s2 THEN [num |-> 1, den |-> 1]
  ELSE IF Len(s1) = 0 \/ Len(s2) = 0 THEN [num |-> 0, den |-> 1]
  ELSE
    LET prev == LastRow(s1, s2, 1, [k \in 1..(Len(s2) + 1) |-> k - 1])
        longest == Max2(Len(s1), Len(s2))
    IN [num |-> longest - prev[Len(s2) + 1], den |-> longest]

\* sim >= 0.85
AtLeastThreshold(sim) == 100 * sim.num >= 85 * sim.den

\* round(sim, 3), in thousandths; a tie goes to the even thousandth.
Round3(sim) ==
  LET q == (1000 * sim.num) \div sim.den
      r == (1000 * sim.num) % sim.den
  IN IF 2 * r > sim.den \/ (2 * r = sim.den /\ q % 2 = 1) THEN q + 1 ELSE q

\* Mutant: the bucket key is cut after two characters.
BucketKey_TwoChars(name_normalized) ==
  lower(SubSeq(name_normalized, 1, Min2(2, Len(name_normalized))))

\* (node['name_normalized'] or '')[:3].lower()
BucketKey(name_normalized) ==
  lower(SubSeq(name_normalized, 1, Min2(3, Len(name_normalized))))

\* Mutant: keys of two characters are left out as well.
TooShortToBucket_UnderThree(key) == Len(key) < 3

\* if len(key) < 2: continue
TooShortToBucket(key) == Len(key) < 2

\* The rows of SELECT ... FROM nodes ORDER BY name_normalized, rows with
\* the same name_normalized in any order.
OrderedByNameNormalized(db) ==
  {q \in RowOrders(DOMAIN db.nodes) :
     \A i, j \in DOMAIN q :
       i < j => StrLessEq(db.nodes[q[i]].name_normalized,
                          db.nodes[q[j]].name_normalized)}

\* buckets: the keys in the order of their first row, and the rows of a key
\* in row order.
RECURSIVE BucketKeys(_, _, _)
BucketKeys(db, rows, keys) ==
  IF rows = << >> THEN keys
  ELSE
    LET key == BucketKey(db.nodes[Head(rows)].name_normalized)
        known == \E k \in DOMAIN keys : keys[k] = key
    IN BucketKeys(db, Tail(rows),
                  IF TooShortToBucket(key) \/ known THEN keys
                  ELSE Append(keys, key))

BucketNodes(db, rows, key) ==
  SelectSeq(rows, LAMBDA n : BucketKey(db.nodes[n].name_normalized) = key)

\* The two nested loops over one bucket, from the pair (i, j) on; acc is
\* [dups, seen], the list potential_duplicates and the set seen_pairs.
RECURSIVE ScanBucket(_, _, _, _, _)
ScanBucket(db, bucket_nodes, i, j, acc) ==
  IF i > Len(bucket_nodes) THEN acc
  ELSE IF j > Len(bucket_nodes)
  THEN ScanBucket(db, bucket_nodes, i + 1, i + 2, acc)
  ELSE
    LET a == bucket_nodes[i]
        b == bucket_nodes[j]
        sim == similarity(lower(db.nodes[a].name_normalized),
                          lower(db.nodes[b].name_normalized))
        pair_key == <<Min2(a, b), Max2(a, b)>>
        next ==
          IF AtLeastThreshold(sim) /\ pair_key \notin acc.seen
          THEN [dups |-> Append(acc.dups,
                                [node_a |-> a, node_b |-> b,
                                 similarity |-> Round3(sim)]),
                seen |-> acc.seen \cup {pair_key}]
          ELSE acc
    IN ScanBucket(db, bucket_nodes, i, j + 1, next)

RECURSIVE ScanBuckets(_, _, _, _)
ScanBuckets(db, rows, keys, acc) ==
  IF keys = << >> THEN acc
  ELSE
    LET bucket_nodes == BucketNodes(db, rows, Head(keys))
    IN ScanBuckets(db, rows, Tail(keys),
                   IF Len(bucket_nodes) < 2 THEN acc
                   ELSE ScanBucket(db, bucket_nodes, 1, 2, acc))

\* Mutant: the list is left in the order of the scan.
InsertBySimilarity_ScanOrder(sorted, x) == Append(sorted, x)

\* list.sort(key=lambda x: -x['similarity']): stable, highest first.
RECURSIVE InsertBySimilarity(_, _)
InsertBySimilarity(sorted, x) ==
  IF sorted = << >> THEN <<x>>
  ELSE IF Head(sorted).similarity >= x.similarity
       THEN <<Head(sorted)>> \o InsertBySimilarity(Tail(sorted), x)
       ELSE <<x>> \o sorted

RECURSIVE SortBySimilarity(_, _)
SortBySimilarity(dups, sorted) ==
  IF dups = << >> THEN sorted
  ELSE SortBySimilarity(Tail(dups), InsertBySimilarity(sorted, Head(dups)))

\* The potential_duplicates of get_audit_report, all_nodes fetched in the
\* order rows.
potential_duplicates(db, rows) ==
  LET scanned == ScanBuckets(db, rows, BucketKeys(db, rows, << >>),
                             [dups |-> << >>, seen |-> {}])
  IN SortBySimilarity(scanned.dups, << >>)

get_audit_report(db, rows) == Returned(db, potential_duplicates(db, rows))

\* Names given in the audit specification: two long names one edit apart,
\* one that differs from the first in case only, one that differs from them
\* in its third character, a shorter one, one that shares only the bucket,
\* two that differ in case only, one that differs from them by a trailing
\* space, and two of one character.
AuditNames ==
  { <<"a", "b", "c", "d", "e", "f", "g">>,
    <<"A", "b", "c", "d", "e", "f", "g">>,
    <<"a", "b", "c", "d", "e", "f", "h">>,
    <<"a", "b", "x", "d", "e", "f", "g">>,
    <<"a", "b", "c", "d", "e", "f">>,
    <<"a", "b", "c", "x">>,
    <<"A", "b">>, <<"a", "b">>, <<"a", "b", " ">>,
    <<"a">>, <<"A">> }

AuditCreateNode ==
  /\ ops < MaxAuditOps
  /\ \E name \in AuditNames :
    /\ sqlite_sequence.nodes < MaxNodeId
    /\ Run(create_node(DB, name, "person", NULL), "create_node", 0, name)

AuditRenameNode ==
  /\ ops < MaxAuditOps
  /\ \E node_id \in DOMAIN nodes, name \in AuditNames :
    Run(update_node(DB, node_id, Some(name), None, None, << >>),
        "update_node", node_id, 0)

GetAuditReport ==
  /\ ops < MaxAuditOps
  /\ \E rows \in OrderedByNameNormalized(DB) :
    Run(get_audit_report(DB, rows), "get_audit_report", 0, 0)

InitAudit ==
  /\ nodes = EmptyDB.nodes
  /\ edges = EmptyDB.edges
  /\ shared_institutions = EmptyDB.shared
  /\ sqlite_sequence = EmptyDB.seq
  /\ last = InitDbRecord
  /\ ops = 0
  /\ write_lock = 0
  /\ conn = [c \in Connections |-> NoRequest]
  /\ db_at_start = EmptyDB

NextAudit == AuditCreateNode \/ AuditRenameNode \/ GetAuditReport

SpecAudit == InitAudit /\ [][NextAudit]_vars

\* The first three characters of a normalized name.
FirstThree(s) == SubSeq(s, 1, Min2(3, Len(s)))

NormalizedOf(n) == nodes[n].name_normalized

\* The records of the report that pair nodes a and b, in either order.
RecordsOf(report, a, b) ==
  {k \in DOMAIN report : {report[k].node_a, report[k].node_b} = {a, b}}

\* C19: every record of potential_duplicates pairs two distinct nodes whose
\* normalized names have the same first three characters and similarity at
\* least 0.85, and no unordered pair of nodes is in two records.
C19_DuplicatesSound ==
  last.op = "get_audit_report" =>
    \A k \in DOMAIN last.ret :
      LET a == last.ret[k].node_a
          b == last.ret[k].node_b
      IN /\ a \in DOMAIN nodes /\ b \in DOMAIN nodes
         /\ a # b
         /\ FirstThree(NormalizedOf(a)) = FirstThree(NormalizedOf(b))
         /\ AtLeastThreshold(similarity(NormalizedOf(a), NormalizedOf(b)))
         /\ last.ret[k].similarity >= 850
         /\ RecordsOf(last.ret, a, b) = {k}

\* A report with two records, one of them for names that are not equal.
C19_Witness ==
  /\ last.op = "get_audit_report"
  /\ Len(last.ret) >= 2
  /\ \E k \in DOMAIN last.ret : last.ret[k].similarity < 1000

\* C20: every pair of distinct nodes whose normalized names have two or more
\* characters, the same first three characters and similarity at least 0.85
\* is in exactly one record, and a node whose normalized name has fewer than
\* two characters is in no record.
C20_DuplicatesComplete ==
  last.op = "get_audit_report" =>
    /\ \A a \in DOMAIN nodes, b \in DOMAIN nodes :
         (/\ a < b
          /\ Len(NormalizedOf(a)) >= 2 /\ Len(NormalizedOf(b)) >= 2
          /\ FirstThree(NormalizedOf(a)) = FirstThree(NormalizedOf(b))
          /\ AtLeastThreshold(similarity(NormalizedOf(a), NormalizedOf(b))))
           => Cardinality(RecordsOf(last.ret, a, b)) = 1
    /\ \A n \in DOMAIN nodes :
         Len(NormalizedOf(n)) < 2 =>
           \A k \in DOMAIN last.ret :
             n \notin {last.ret[k].node_a, last.ret[k].node_b}

\* A report over a node with a one-character name and the nodes "Ab" and
\* "ab": it pairs the two and leaves the first out.
C20_Witness ==
  /\ last.op = "get_audit_report"
  /\ \E n \in DOMAIN nodes : Len(NormalizedOf(n)) = 1
  /\ \E a \in DOMAIN nodes, b \in DOMAIN nodes :
       /\ a # b
       /\ NormalizedOf(a) = <<"a", "b">> /\ NormalizedOf(b) = <<"a", "b">>
       /\ RecordsOf(last.ret, a, b) # {}
  /\ Len(last.ret) = 1

\* C21: the records of potential_duplicates are in non-increasing order of
\* their reported similarity: each record's score is greater than or equal
\* to the score of the record after it.
C21_SortedBySimilarity ==
  last.op = "get_audit_report" =>
    \A k \in 1..(Len(last.ret) - 1) :
      last.ret[k].similarity >= last.ret[k + 1].similarity

\* A report of three records over "abcdef", "abcdefg" and "Abcdefg": the scan
\* meets the two pairs that score 0.857 before the pair that scores 1.0, and
\* the report lists the latter first.
C21_Witness ==
  /\ last.op = "get_audit_report"
  /\ Len(last.ret) = 3
  /\ \E n \in DOMAIN nodes : Len(NormalizedOf(n)) = 6
  /\ last.ret[1].similarity = 1000
  /\ last.ret[2].similarity = 857
  /\ last.ret[3].similarity = 857
  /\ \A k \in {2, 3} :
       Len(NormalizedOf(last.ret[k].node_a)) = 6

\* C23: when a node exists under a name of two or more characters and
\* create_node is given that name followed by one space, the call stores a
\* second node; the two nodes have the same bucket key and similarity 1.0,
\* and the report over the resulting table pairs them.
C23_TrailingSpaceVariantStored ==
  [][\A n \in DOMAIN nodes :
       (/\ last'.op = "create_node"
        /\ last'.arg = nodes[n].name \o <<" ">>
        /\ Len(nodes[n].name_normalized) >= 2)
       => /\ last'.ok
          /\ LET m == last'.ret
                 after == [nodes |-> nodes', edges |-> edges',
                           shared |-> shared_institutions',
                           seq |-> sqlite_sequence']
             IN /\ m \in DOMAIN nodes' \ {n}
                /\ BucketKey(nodes'[m].name_normalized)
                     = BucketKey(nodes'[n].name_normalized)
                /\ similarity(nodes'[m].name_normalized,
                              nodes'[n].name_normalized) = [num |-> 1, den |-> 1]
                /\ \A rows \in OrderedByNameNormalized(after) :
                     RecordsOf(potential_duplicates(after, rows), n, m) # {}]_vars

\* ------------------------------------------------ _similarity as a function
\* Longest string given to _similarity in the specification below.
MaxStrLen == 3

\* Every string of at most MaxStrLen characters over "a" and "b", the empty
\* string included.
SimilarityInputs == UNION {[1..k -> {"a", "b"}] : k \in 0..MaxStrLen}

\* _similarity(s1, s2) is called and its value recorded; the database is not
\* read.
Similarity ==
  \E s1 \in SimilarityInputs, s2 \in SimilarityInputs :
    /\ last' = [op |-> "_similarity", ok |-> TRUE, id |-> 0,
                arg |-> <<s1, s2>>, ret |-> similarity(s1, s2)]
    /\ UNCHANGED <<nodes, edges, shared_institutions, sqlite_sequence, ops,
                   write_lock, conn, db_at_start>>

NextSimilarity == Similarity

SpecSimilarity == InitAudit /\ [][NextSimilarity]_vars

\* Levenshtein distance by its recursive definition: the cheapest of deleting
\* the first character of s, inserting the first character of t, and matching
\* or substituting the two.
RECURSIVE EditDistance(_, _)
EditDistance(s, t) ==
  IF s = << >> THEN Len(t)
  ELSE IF t = << >> THEN Len(s)
  ELSE Min2(Min2(EditDistance(Tail(s), t) + 1, EditDistance(s, Tail(t)) + 1),
            EditDistance(Tail(s), Tail(t))
              + (IF Head(s) = Head(t) THEN 0 ELSE 1))

\* What C22 says of every pair but the empty ones: sim is
\* 1 - EditDistance / max(len), lies in [0, 1], is the value of the swapped
\* call as well, and is 1 exactly when the strings are equal.
SimilarityLaws(s1, s2, sim) ==
  LET longest == Max2(Len(s1), Len(s2))
      swapped == similarity(s2, s1)
  IN /\ sim.den > 0
     /\ 0 <= sim.num /\ sim.num <= sim.den
     /\ longest > 0 =>
          sim.num * longest = (longest - EditDistance(s1, s2)) * sim.den
     /\ sim.num * swapped.den = swapped.num * sim.den
     /\ (sim.num = sim.den) <=> (s1 = s2)

\* C22 as stated: _similarity(s1, s2) is 1 - EditDistance(s1, s2) / max(len),
\* in [0, 1], symmetric, 1 exactly for equal strings, and below 0.85 whenever
\* one of the strings is empty, two empty strings included.
C22_EmptyAlwaysBelowThreshold ==
  last.op = "_similarity" =>
    /\ SimilarityLaws(last.arg[1], last.arg[2], last.ret)
    /\ (last.arg[1] = << >> \/ last.arg[2] = << >>)
         => ~AtLeastThreshold(last.ret)

\* C22, amended: _similarity(s1, s2) is 1 - EditDistance(s1, s2) / max(len),
\* in [0, 1], symmetric and 1 exactly for equal strings; an empty string
\* scores 0, below 0.85, against every string that is not empty, and two
\* empty strings score 1.
C22_SimilarityLaws ==
  last.op = "_similarity" =>
    /\ SimilarityLaws(last.arg[1], last.arg[2], last.ret)
    /\ (last.arg[1] = << >>) # (last.arg[2] = << >>)
         => last.ret.num = 0 /\ ~AtLeastThreshold(last.ret)
    /\ (last.arg[1] = << >> /\ last.arg[2] = << >>)
         => last.ret.num = last.ret.den /\ AtLeastThreshold(last.ret)

\* _similarity was called on two empty strings.
C22_Witness ==
  /\ last.op = "_similarity"
  /\ last.arg = << << >>, << >> >>
  /\ last.ret.num = last.ret.den

\* ------------------------------------------------- concurrent connections
\* Mutant: merge_nodes without its BEGIN IMMEDIATE; the sqlite3 module then
\* opens the transaction before the first DELETE or UPDATE only.
MergeLocksAtBegin_Deferred == FALSE

\* conn.execute("BEGIN IMMEDIATE"): merge_nodes takes the write lock before
\* its first SELECT.
MergeLocksAtBegin == TRUE

\* What a statement of connection c reads: its own transaction once it has
\* one, the committed database otherwise.
View(c) == IF write_lock = c THEN conn[c].txn ELSE DB

\* The write lock is free or held by c; another connection's holding it makes
\* c wait for it (or give up, see Busy).
LockAvailable(c) == write_lock \in {0, c}

\* "SELECT id FROM edges WHERE source_id = ? AND target_id = ?"
ExistingEdge(db, source_id, target_id) ==
  \E f \in DOMAIN db.edges :
    db.edges[f].source_id = source_id /\ db.edges[f].target_id = target_id

\* "UPDATE edges SET source_id = ? WHERE id = ?" and the same for target_id:
\* no row, no change; a row that breaks UNIQUE or REFERENCES raises.
UpdateEndpoint(db, id, side, primary_id) ==
  IF id \notin DOMAIN db.edges THEN Returned(db, 0)
  ELSE
    LET row == IF side = "source"
               THEN [db.edges[id] EXCEPT !.source_id = primary_id]
               ELSE [db.edges[id] EXCEPT !.target_id = primary_id]
    IN IF EdgeRowRejected(db, id, row.source_id, row.target_id, row.type)
       THEN Raised(db)
       ELSE Returned([db EXCEPT !.edges[id] = row], 0)

\* The connection's next record and the lock after a statement that wrote
\* the database db inside c's transaction.
Wrote(c, db, rec) ==
  /\ write_lock' = c
  /\ conn' = [conn EXCEPT ![c] = [rec EXCEPT !.txn = db]]
  /\ UNCHANGED <<nodes, edges, shared_institutions, sqlite_sequence>>
  /\ UNCHANGED <<last, ops, db_at_start>>

\* A statement that only read.
ReadOnly(c, rec) ==
  /\ conn' = [conn EXCEPT ![c] = rec]
  /\ UNCHANGED <<nodes, edges, shared_institutions, sqlite_sequence, write_lock>>
  /\ UNCHANGED <<last, ops, db_at_start>>

\* get_db()'s except branch: roll back, close the connection, re-raise.
RolledBack(c, busy) ==
  /\ write_lock' = IF write_lock = c THEN 0 ELSE write_lock
  /\ conn' = [conn EXCEPT ![c] = [@ EXCEPT !.pc = "done", !.ok = FALSE,
                                           !.busy = busy]]
  /\ UNCHANGED <<nodes, edges, shared_institutions, sqlite_sequence>>
  /\ UNCHANGED <<last, ops, db_at_start>>

\* A request for merge_nodes(primary_id, secondary_id) arrives on c.
RequestMerge(c) ==
  /\ conn[c].pc = "idle"
  /\ \E primary_id \in NodeIds, secondary_id \in NodeIds :
       ReadOnly(c, [NoRequest EXCEPT !.op = "merge_nodes", !.a = primary_id,
                                     !.b = secondary_id, !.pc = "begin"])

\* A request for create_edge(source_id, target_id, edge_type) arrives on the
\* second connection; the first one always runs a merge.
RequestCreateEdge(c) ==
  /\ c = 2
  /\ conn[c].pc = "idle"
  /\ \E source_id \in NodeIds, target_id \in NodeIds :
       ReadOnly(c, [NoRequest EXCEPT !.op = "create_edge", !.a = source_id,
                                     !.b = target_id, !.edge_type = "personal",
                                     !.pc = "insert"])

\* merge_nodes: BEGIN IMMEDIATE.
BeginImmediate(c) ==
  /\ conn[c].pc = "begin"
  /\ IF MergeLocksAtBegin
     THEN /\ LockAvailable(c)
          /\ Wrote(c, DB, [conn[c] EXCEPT !.pc = "validate"])
     ELSE ReadOnly(c, [conn[c] EXCEPT !.pc = "validate"])

\* merge_nodes: the two SELECTs of the nodes and the two ValueErrors.
Validate(c) ==
  /\ conn[c].pc = "validate"
  /\ LET v == View(c)
         r == conn[c]
     IN IF r.a \notin DOMAIN v.nodes \/ r.b \notin DOMAIN v.nodes \/ r.a = r.b
        THEN RolledBack(c, FALSE)
        ELSE ReadOnly(c, [r EXCEPT !.pc = "fetch", !.side = "source",
                                   !.result = [primary_name |-> v.nodes[r.a].name,
                                               secondary_name |-> v.nodes[r.b].name]])

\* merge_nodes: SELECT the edges with secondary as source (as target), in
\* any row order.
Fetch(c) ==
  /\ conn[c].pc = "fetch"
  /\ LET v == View(c)
         r == conn[c]
         rows == IF r.side = "source" THEN EdgesFrom(v, r.b) ELSE EdgesTo(v, r.b)
     IN \E order \in RowOrders(rows) :
          ReadOnly(c, [r EXCEPT !.pc = "loop", !.pending = order,
                                !.fetched = v.edges])

\* merge_nodes: the head of a loop; for the next fetched edge the self-loop
\* test and the "edge already exists" SELECT, after the last one the next
\* loop or the DELETE of the secondary node.
Check(c) ==
  /\ conn[c].pc = "loop"
  /\ LET v == View(c)
         r == conn[c]
     IN IF r.pending = << >>
        THEN ReadOnly(c, IF r.side = "source"
                         THEN [r EXCEPT !.pc = "fetch", !.side = "target"]
                         ELSE [r EXCEPT !.pc = "delete_secondary"])
        ELSE
          LET row == r.fetched[Head(r.pending)]
              other == IF r.side = "source" THEN row.target_id ELSE row.source_id
              existing == IF r.side = "source" THEN ExistingEdge(v, r.a, other)
                          ELSE ExistingEdge(v, other, r.a)
          IN ReadOnly(c, [r EXCEPT
                            !.pc = "act",
                            !.checked_on = DB,
                            !.decision =
                              IF SelfLoopOnPrimary(other, r.a) \/ existing
                              THEN "delete" ELSE "transfer"])

\* merge_nodes: the DELETE or the UPDATE that follows the check.
Act(c) ==
  /\ conn[c].pc = "act"
  /\ LockAvailable(c)
  /\ LET v == View(c)
         r == conn[c]
         id == Head(r.pending)
         next == [r EXCEPT !.pc = "loop", !.pending = Tail(r.pending)]
     IN IF r.decision = "delete"
        THEN Wrote(c, CascadeDeleteEdges(v, {id}), next)
        ELSE LET u == UpdateEndpoint(v, id, r.side, r.a)
             IN IF u.ok THEN Wrote(c, u.db, [next EXCEPT !.n = @ + 1])
                ELSE RolledBack(c, FALSE)

\* merge_nodes: DELETE FROM nodes WHERE id = secondary.
DeleteSecondary(c) ==
  /\ conn[c].pc = "delete_secondary"
  /\ LockAvailable(c)
  /\ Wrote(c, CascadeDeleteNodes(View(c), {conn[c].b}),
           [conn[c] EXCEPT !.pc = "commit",
                           !.result = [primary_name |-> @.primary_name,
                                       secondary_name |-> @.secondary_name,
                                       edges_transferred |-> conn[c].n]])

\* create_edge: the INSERT, which opens the transaction, and
\* compute_shared_for_edge inside it.
InsertEdge(c) ==
  /\ conn[c].pc = "insert"
  /\ LockAvailable(c)
  /\ LET r == create_edge(View(c), conn[c].a, conn[c].b, conn[c].edge_type)
     IN IF r.ok
        THEN Wrote(c, r.db, [conn[c] EXCEPT !.pc = "commit", !.result = r.ret])
        ELSE RolledBack(c, FALSE)

\* get_db(): conn.commit() and close.
Commit(c) ==
  /\ conn[c].pc = "commit"
  /\ write_lock = c
  /\ nodes' = conn[c].txn.nodes
  /\ edges' = conn[c].txn.edges
  /\ shared_institutions' = conn[c].txn.shared
  /\ sqlite_sequence' = conn[c].txn.seq
  /\ write_lock' = 0
  /\ conn' = [conn EXCEPT ![c] = [@ EXCEPT !.pc = "done", !.ok = TRUE]]
  /\ UNCHANGED <<last, ops, db_at_start>>

\* The statements that need the write lock.
NeedsLock(c) ==
  \/ conn[c].pc = "begin" /\ MergeLocksAtBegin
  \/ conn[c].pc \in {"act", "delete_secondary", "insert"}

\* sqlite3.OperationalError "database is locked": the lock stayed with the
\* other connection for the whole busy timeout.
Busy(c) ==
  /\ NeedsLock(c)
  /\ ~LockAvailable(c)
  /\ RolledBack(c, TRUE)

InitConcurrent == Init

NextConcurrent ==
  \E c \in Connections :
    \/ RequestMerge(c)
    \/ RequestCreateEdge(c)
    \/ BeginImmediate(c)
    \/ Validate(c)
    \/ Fetch(c)
    \/ Check(c)
    \/ Act(c)
    \/ DeleteSecondary(c)
    \/ InsertEdge(c)
    \/ Commit(c)
    \/ Busy(c)

SpecConcurrent == InitConcurrent /\ [][NextConcurrent]_vars

\* The outcomes of running the operation of connection record r alone on
\* database db, one for each order in which its SELECTs may list the rows.
SerialOutcomes(db, r) ==
  IF r.op = "merge_nodes"
  THEN {get_db(db, merge_nodes(db, r.a, r.b, order_src, order_tgt)) :
          order_src \in RowOrders(EdgesFrom(db, r.b)),
          order_tgt \in UNION {RowOrders(EdgesTo(
                                 MergeAfterSource(db, r.a, r.b, o).db, r.b)) :
                               o \in RowOrders(EdgesFrom(db, r.b))}}
  ELSE {get_db(db, create_edge(db, r.a, r.b, r.edge_type))}

\* Connection record r ended as the serial outcome out says.
SameResult(r, out) ==
  /\ r.ok = out.ok
  /\ r.ok =>
       IF r.op = "merge_nodes"
       THEN /\ r.result.primary_name = out.ret.primary_name
            /\ r.result.secondary_name = out.ret.secondary_name
            /\ r.result.edges_transferred = out.ret.edges_transferred
       ELSE r.result = out.ret

\* The committed database and the two results are those of running the
\* operations that were not turned away as busy one after the other,
\* first then second, from the database at the start.
SerialOrder(first, second) ==
  \E o1 \in (IF conn[first].busy THEN {Returned(db_at_start, 0)}
             ELSE SerialOutcomes(db_at_start, conn[first])) :
    /\ conn[first].busy \/ SameResult(conn[first], o1)
    /\ \E o2 \in (IF conn[second].busy THEN {Returned(o1.db, 0)}
                  ELSE SerialOutcomes(o1.db, conn[second])) :
         /\ conn[second].busy \/ SameResult(conn[second], o2)
         /\ o2.db = DB

AllDone == \A c \in Connections : conn[c].pc = "done"

\* C17: when a merge and a concurrent create_edge or second merge have both
\* ended, the committed database and their results are those of one of the
\* two serial orders; while a merge is between its "edge already exists"
\* check and the statement that follows, the committed database is the one
\* it checked; and no committed edge names a missing node or repeats the
\* (source, target) of another.
C17_MergeSerialized ==
  /\ AllDone => SerialOrder(1, 2) \/ SerialOrder(2, 1)
  /\ \A c \in Connections :
       conn[c].pc = "act" => conn[c].checked_on = DB
  /\ \A e \in DOMAIN edges :
       /\ edges[e].source_id \in DOMAIN nodes
       /\ edges[e].target_id \in DOMAIN nodes
       /\ \A f \in DOMAIN edges :
            (/\ edges[f].source_id = edges[e].source_id
             /\ edges[f].target_id = edges[e].target_id) => f = e

\* A create_edge from the merge's secondary node committed first and the
\* merge, which had to wait for the lock, then re-homed the new edge.
C17_Witness ==
  /\ AllDone
  /\ conn[1].op = "merge_nodes" /\ conn[1].ok
  /\ conn[2].op = "create_edge" /\ conn[2].ok
  /\ conn[2].a = conn[1].b
  /\ conn[2].result \in DOMAIN edges
  /\ edges[conn[2].result].source_id = conn[1].a
  /\ conn[1].result.edges_transferred >= 2

\* ------------------------------------------------- errors and their effects
\* C24: an operation given an id that is no node or no edge raises:
\* update_node and delete_node for a node id, update_edge and delete_edge for
\* an edge id, create_edge for an endpoint, batch_create_edges for the target
\* or one of the sources, merge_nodes for either node.
C24_MissingIdReported ==
  [][(\/ /\ last'.op \in {"update_node", "delete_node"}
         /\ last'.id \notin DOMAIN nodes
      \/ /\ last'.op \in {"update_edge", "delete_edge"}
         /\ last'.id \notin DOMAIN edges
      \/ /\ last'.op = "create_edge"
         /\ \/ last'.arg.source_id \notin DOMAIN nodes
            \/ last'.arg.target_id \notin DOMAIN nodes
      \/ /\ last'.op = "batch_create_edges"
         /\ \/ last'.arg.target_id \notin DOMAIN nodes
            \/ \E i \in DOMAIN last'.arg.source_ids :
                 last'.arg.source_ids[i] \notin DOMAIN nodes
      \/ /\ last'.op = "merge_nodes"
         /\ \/ last'.id \notin DOMAIN nodes
            \/ last'.arg \notin DOMAIN nodes)
       => ~last'.ok]_vars

\* C25: an operation that raises, at its first statement or after it has
\* written, leaves the nodes, the edges with their needs_review flags and the
\* cached rows exactly as they were before it began.
C25_RaiseRollsBack ==
  [][~last'.ok => /\ nodes' = nodes
                  /\ edges' = edges
                  /\ shared_institutions' = shared_institutions]_vars

\* merge_nodes was given two different existing nodes and raised all the
\* same: a statement failed after the first loop had deleted or re-homed
\* the edges that leave the secondary node, which are all still there.
C25_Witness ==
  /\ last.op = "merge_nodes"
  /\ ~last.ok
  /\ last.id \in DOMAIN nodes
  /\ last.arg \in DOMAIN nodes
  /\ last.id # last.arg
  /\ EdgesFrom(DB, last.arg) # {}

\* ------------------------------------------------------- batch_create_edges
\* The database after the step.
DBAfter ==
  [nodes |-> nodes', edges |-> edges', shared |-> shared_institutions',
   seq |-> sqlite_sequence']

\* C26: batch_create_edges(source_ids, target_id, edge_type), given an
\* existing target and a valid type and returning normally, leaves every
\* edge there was as it was; for a source that already has an edge with the
\* target, in either orientation, it creates nothing; for every other
\* existing source it creates exactly one edge source -> target of the given
\* type, whose cached rows and flag are recomputed; and it returns exactly
\* the ids of the edges it created.
C26_BatchCreateEdges ==
  [][(/\ last'.op = "batch_create_edges"
      /\ last'.ok
      /\ last'.arg.edge_type \in EdgeTypes
      /\ last'.arg.target_id \in DOMAIN nodes)
       => LET target_id == last'.arg.target_id
              sources == {last'.arg.source_ids[i] :
                            i \in DOMAIN last'.arg.source_ids}
              created == {last'.ret[i] : i \in DOMAIN last'.ret}
              NewFrom(s) == {e \in created : edges'[e].source_id = s}
          IN /\ \A e \in DOMAIN edges :
                  e \in DOMAIN edges' /\ edges'[e] = edges[e]
             /\ Cardinality(created) = Len(last'.ret)
             /\ created = DOMAIN edges' \ DOMAIN edges
             /\ \A e \in created :
                  /\ edges'[e].source_id \in sources
                  /\ edges'[e].target_id = target_id
                  /\ edges'[e].type = last'.arg.edge_type
                  /\ UpToDateIn(DBAfter, e)
             /\ \A s \in sources :
                  Cardinality(NewFrom(s)) =
                    IF s \in DOMAIN nodes /\ ~AdjacentIn(DB, s, target_id)
                    THEN 1 ELSE 0]_vars

\* ------------------------------------------------------------------- frames
\* C27: batch_update_edge_type(edge_ids, edge_type) that returns normally
\* sets the type of the listed edges to edge_type; it sets their needs_review
\* to false for personal and affiliation and leaves it as it was for unknown;
\* the endpoints of the listed edges, the edges not listed, the nodes and the
\* cached rows are unchanged.
C27_BatchUpdateEdgeTypeFrame ==
  [][(last'.op = "batch_update_edge_type" /\ last'.ok)
       => /\ DOMAIN edges' = DOMAIN edges
          /\ \A e \in DOMAIN edges :
               IF e \in last'.arg.edge_ids
               THEN /\ edges'[e].type = last'.arg.edge_type
                    /\ edges'[e].needs_review =
                         IF last'.arg.edge_type \in DefiniteTypes THEN FALSE
                         ELSE edges[e].needs_review
                    /\ edges'[e].source_id = edges[e].source_id
                    /\ edges'[e].target_id = edges[e].target_id
               ELSE edges'[e] = edges[e]
          /\ nodes' = nodes
          /\ shared_institutions' = shared_institutions]_vars

\* The first operation on a database set the type of a flagged personal edge
\* to unknown and left another edge out of the list: the edge is unknown and
\* still flagged.
C27_Witness ==
  /\ last.op = "batch_update_edge_type"
  /\ last.ok
  /\ ops = 1
  /\ last.arg.edge_type = "unknown"
  /\ DOMAIN edges \ last.arg.edge_ids # {}
  /\ \E e \in last.arg.edge_ids \cap DOMAIN edges :
       /\ db_at_start.edges[e].type = "personal"
       /\ db_at_start.edges[e].needs_review
       /\ edges[e].type = "unknown"
       /\ edges[e].needs_review

\* C28: recompute(edge_id) changes nothing but the cached rows of that edge
\* and its needs_review flag: the nodes, the set of edges, every edge's
\* endpoints and type, and the flags and cached rows of the other edges are
\* as before. And recalculate_all leaves the same database whatever the
\* order in which its SELECT lists the edges.
C28_RecomputeFrame ==
  [][/\ last'.op = "recompute" =>
          /\ nodes' = nodes
          /\ DOMAIN edges' = DOMAIN edges
          /\ \A e \in DOMAIN edges :
               IF e = last'.id
               THEN edges'[e] = [edges[e] EXCEPT
                                  !.needs_review = edges'[e].needs_review]
               ELSE edges'[e] = edges[e]
          /\ {r \in shared_institutions' : r.edge_id # last'.id}
               = {r \in shared_institutions : r.edge_id # last'.id}
     /\ (last'.op = "recalculate_all" /\ last'.ok) =>
          \A order \in RowOrders(DOMAIN edges) :
            recalculate_all_shared_institutions(DB, order).db = DBAfter]_vars

\* After an edge was created, recompute ran on an older edge next to other
\* edges and changed its cached rows.
C28_Witness ==
  /\ last.op = "recompute"
  /\ ops = 2
  /\ sqlite_sequence.edges > db_at_start.seq.edges
  /\ DOMAIN db_at_start.edges \subseteq DOMAIN edges
  /\ last.id \in DOMAIN db_at_start.edges
  /\ CachedRows(last.id) # CachedRowsIn(db_at_start, last.id)
  /\ \E f \in DOMAIN edges \ {last.id} : CachedRows(f) # {}

\* ------------------------------------------------------ merge, connectivity
\* The nodes joined to node n by an edge of the table es, in either
\* orientation.
NeighboursIn(es, n) ==
  {es[e].target_id : e \in {f \in DOMAIN es : es[f].source_id = n}}
    \cup {es[e].source_id : e \in {f \in DOMAIN es : es[f].target_id = n}}

\* C29: after a successful merge the nodes adjacent to the primary are the
\* nodes that were adjacent to the primary or to the secondary, without the
\* two themselves; an edge that did not touch the secondary is unchanged;
\* and an edge of the secondary that is still there has its old id and type,
\* its other endpoint, and the primary in the place of the secondary.
C29_MergePreservesConnectivity ==
  [][(last'.op = "merge_nodes" /\ last'.ok)
       => LET primary_id == last'.id
              secondary_id == last'.arg
          IN /\ NeighboursIn(edges', primary_id) =
                  (NeighboursIn(edges, primary_id)
                     \cup NeighboursIn(edges, secondary_id))
                    \ {primary_id, secondary_id}
             /\ DOMAIN edges' \subseteq DOMAIN edges
             /\ \A e \in DOMAIN edges :
                  secondary_id \notin EndsOf(edges[e])
                    => e \in DOMAIN edges' /\ edges'[e] = edges[e]
             /\ \A e \in DOMAIN edges' :
                  secondary_id \in EndsOf(edges[e])
                    => /\ edges'[e].type = edges[e].type
                       /\ \/ /\ edges[e].source_id = secondary_id
                             /\ edges'[e].source_id = primary_id
                             /\ edges'[e].target_id = edges[e].target_id
                          \/ /\ edges[e].target_id = secondary_id
                             /\ edges'[e].target_id = primary_id
                             /\ edges'[e].source_id = edges[e].source_id]_vars

\* ---------------------------------------------------- referential integrity
\* C30: in every state the source and the target of every edge are nodes,
\* and every cached row names an edge and a node that exist.
C30_ReferentialIntegrity ==
  /\ \A e \in DOMAIN edges :
       edges[e].source_id \in DOMAIN nodes /\ edges[e].target_id \in DOMAIN nodes
  /\ \A r \in shared_institutions :
       r.edge_id \in DOMAIN edges /\ r.institution_id \in DOMAIN nodes

\* The first operation on a database removed, by delete_node or as the
\* secondary of merge_nodes, an institution that had edges and was named by
\* a cached row of an edge that is still there.
C30_Witness ==
  /\ ops = 1
  /\ last.ok
  /\ \E gone \in DOMAIN db_at_start.nodes \ DOMAIN nodes :
       /\ \/ last.op = "delete_node" /\ last.id = gone
          \/ last.op = "merge_nodes" /\ last.arg = gone
       /\ EdgesOfNode(db_at_start, gone) # {}
       /\ \E r \in db_at_start.shared :
            r.institution_id = gone /\ r.edge_id \in DOMAIN edges

====
